---- MODULE Spec2Model ----
(***************************************************************************)
(* The whisper program (programs/whisper/src/lib.rs): confessions, likes   *)
(* and comments kept in program-derived accounts.                          *)
(*                                                                         *)
(* The account store maps an address to the account that lives there.  An  *)
(* instruction first validates its accounts struct (signer checks, typed    *)
(* account checks, seeds, init), then runs its handler on the validated     *)
(* accounts; the instruction's writes persist only when the handler        *)
(* returns Ok.                                                              *)
(*                                                                         *)
(* Not modelled: lamports and rent (the payer of an init is taken to afford *)
(* the allocation), the writable flag of the accounts an instruction names, *)
(* and the system_program account.                                          *)
(***************************************************************************)
EXTENDS Integers, Sequences, FiniteSets, TLC

\* ------------------------------------------------------------------ bounds
MaxTime == 1      \* the clock runs over 0..MaxTime
MaxOps == 3       \* successful instructions in one run

\* ------------------------------------------------------- unsigned 64 bits
\* A u64 is kept as U64Limbs limbs in base LimbBase (16 bits each), least significant
\* limb first, so that the full 64-bit width is kept.
LimbBase == 65536
U64Limbs == 4

U64_ZERO == [i \in 1..U64Limbs |-> 0]
U64_MAX == [i \in 1..U64Limbs |-> LimbBase - 1]
U64_ONE == [i \in 1..U64Limbs |-> IF i = 1 THEN 1 ELSE 0]

IsU64(x) ==
    /\ DOMAIN x = 1..U64Limbs
    /\ \A i \in 1..U64Limbs : x[i] \in 0..(LimbBase - 1)

None == [some |-> FALSE]
Some(v) == [some |-> TRUE, val |-> v]

\* carry into limb i of x + y
RECURSIVE CarryInto(_, _, _)
CarryInto(x, y, i) ==
    IF i = 1 THEN 0
    ELSE (x[i - 1] + y[i - 1] + CarryInto(x, y, i - 1)) \div LimbBase

wrapping_add(x, y) ==
    [i \in 1..U64Limbs |-> (x[i] + y[i] + CarryInto(x, y, i)) % LimbBase]

\* faulty variant: an addition that never reports overflow
checked_add_wraps(x, y) == Some(wrapping_add(x, y))

\* u64::checked_add: None when the sum does not fit in 64 bits
checked_add(x, y) ==
    IF CarryInto(x, y, U64Limbs + 1) = 0
    THEN Some(wrapping_add(x, y))
    ELSE None

\* ---------------------------------------------------------------- strings
Confession_MAX_URI_LENGTH == 200
Comment_MAX_URI_LENGTH == 200

\* A String of n bytes, all of them the byte b, kept as its length and that
\* byte.
Str(n, b) == [len |-> n, byte |-> IF n = 0 THEN 0 ELSE b]
EmptyString == Str(0, 0)
\* String::len
StrLen(str) == str.len
\* String::is_empty
is_empty(str) == str.len = 0

\* a content_uri of n bytes
UriOfLen(n) == Str(n, 97)

\* the content_uri arguments tried: empty, shortest, longest, one too long
UriInputs ==
    {UriOfLen(n) : n \in {0, 1, Confession_MAX_URI_LENGTH, Confession_MAX_URI_LENGTH + 1}}

\* -------------------------------------------------------------- addresses
\* the wallets that sign instructions
Keys == {<<"wallet", 1>>, <<"wallet", 2>>}
DefaultPubkey == <<"wallet", 0>>
NoAddress == <<"none", 0>>

\* faulty variant: the author's key is left out of the seeds
ConfessionPda_no_author(author) == <<"confession", DefaultPubkey>>

\* seeds = [b"confession", author.key()]
ConfessionPda(author) == <<"confession", author>>
\* seeds = [b"comment", confession.key(), commenter.key()]
CommentPda(confession, commenter) == <<"comment", confession, commenter>>

\* the canonical bump of a derived address
FindBump(addr) == CHOOSE b \in 0..255 : TRUE

ConfAddrs == {ConfessionPda(k) : k \in Keys}
CommentAddrs == {CommentPda(f, c) : f \in ConfAddrs, c \in Keys}
Addresses == Keys \cup ConfAddrs \cup CommentAddrs

\* ---------------------------------------------------------------- accounts
NoAccount == [kind |-> "None"]
SystemAccount == [kind |-> "System"]

\* a freshly allocated (zeroed) ConfessionAccount
ConfessionAccount ==
    [kind |-> "Confession", author |-> DefaultPubkey, content_uri |-> EmptyString,
     like_count |-> U64_ZERO, comment_count |-> U64_ZERO, timestamp |-> 0,
     bump |-> 0]

\* a freshly allocated (zeroed) CommentAccount
CommentAccount ==
    [kind |-> "Comment", confession |-> DefaultPubkey, commenter |-> DefaultPubkey,
     content_uri |-> EmptyString, timestamp |-> 0, bump |-> 0]

EmptyStore ==
    [a \in Addresses |-> IF a \in Keys THEN SystemAccount ELSE NoAccount]

Lookup(s, a) == IF a \in DOMAIN s THEN s[a] ELSE NoAccount

Ok == "Ok"
Outcome(r, s) == [result |-> r, store |-> s]

\* ------------------------------------------------- accounts validation
\* Account<'info, ConfessionAccount>: the address must hold an account of
\* this program whose type is ConfessionAccount.
AccountCheck(s, a, kind) ==
    LET acc == Lookup(s, a)
    IN IF acc.kind = "None" THEN "AccountNotInitialized"
       ELSE IF acc.kind = "System" THEN "AccountOwnedByWrongProgram"
       ELSE IF acc.kind # kind THEN "AccountDiscriminatorMismatch"
       ELSE Ok

\* Signer<'info>
SignerCheck(signed) == IF signed THEN Ok ELSE "AccountNotSigner"

\* faulty variant: init that does not refuse an address already in use
Init_account_overwrites(s, supplied, expected, fresh) ==
    IF supplied # expected THEN Outcome("ConstraintSeeds", s)
    ELSE Outcome(Ok, [s EXCEPT ![supplied] = fresh])

\* faulty variant: init without the seeds constraint
Init_account_no_seeds(s, supplied, expected, fresh) ==
    IF Lookup(s, supplied).kind # "None" THEN Outcome("AccountAlreadyInUse", s)
    ELSE Outcome(Ok, [s EXCEPT ![supplied] = fresh])

\* #[account(init, seeds = [...], bump)]: the supplied address must be the
\* derived one and must hold no account yet; the account is then allocated.
Init_account(s, supplied, expected, fresh) ==
    IF supplied # expected THEN Outcome("ConstraintSeeds", s)
    ELSE IF Lookup(s, supplied).kind # "None" THEN Outcome("AccountAlreadyInUse", s)
    ELSE Outcome(Ok, [s EXCEPT ![supplied] = fresh])

\* #[derive(Accounts)] struct CreateConfession
CreateConfession_accounts(s, confession, author, signed) ==
    IF SignerCheck(signed) # Ok THEN Outcome(SignerCheck(signed), s)
    ELSE Init_account(s, confession, ConfessionPda(author), ConfessionAccount)

\* faulty variant: only the confession's author may like it
LikeConfession_accounts_author_only(s, confession, user, signed) ==
    IF AccountCheck(s, confession, "Confession") # Ok
    THEN Outcome(AccountCheck(s, confession, "Confession"), s)
    ELSE IF s[confession].author # user THEN Outcome("ConstraintHasOne", s)
    ELSE Outcome(SignerCheck(signed), s)

\* #[derive(Accounts)] struct LikeConfession
LikeConfession_accounts(s, confession, user, signed) ==
    IF AccountCheck(s, confession, "Confession") # Ok
    THEN Outcome(AccountCheck(s, confession, "Confession"), s)
    ELSE Outcome(SignerCheck(signed), s)

\* faulty variant: init_if_needed: an existing Comment is handed to the handler
CommentConfession_accounts_if_needed(s, confession, comment, commenter, signed) ==
    IF AccountCheck(s, confession, "Confession") # Ok
    THEN Outcome(AccountCheck(s, confession, "Confession"), s)
    ELSE IF SignerCheck(signed) # Ok THEN Outcome(SignerCheck(signed), s)
    ELSE IF comment # CommentPda(confession, commenter) THEN Outcome("ConstraintSeeds", s)
    ELSE IF Lookup(s, comment).kind = "Comment" THEN Outcome(Ok, s)
    ELSE Init_account(s, comment, CommentPda(confession, commenter), CommentAccount)

\* #[derive(Accounts)] struct CommentConfession
CommentConfession_accounts(s, confession, comment, commenter, signed) ==
    IF AccountCheck(s, confession, "Confession") # Ok
    THEN Outcome(AccountCheck(s, confession, "Confession"), s)
    ELSE IF SignerCheck(signed) # Ok THEN Outcome(SignerCheck(signed), s)
    ELSE Init_account(s, comment, CommentPda(confession, commenter), CommentAccount)

\* ---------------------------------------------------------------- handlers
\* Each handler works on the validated accounts in the store s and returns
\* its result with the store as it has written it so far.

\* faulty variant: the length check is < instead of <=
create_confession_off_by_one(s, confession, author, content_uri, clock) ==
    IF ~(StrLen(content_uri) < Confession_MAX_URI_LENGTH)
    THEN Outcome("ContentUriTooLong", s)
    ELSE IF is_empty(content_uri)
    THEN Outcome("EmptyContentUri", s)
    ELSE Outcome(Ok, [s EXCEPT ![confession] =
        [@ EXCEPT !.author = author,
                  !.content_uri = content_uri,
                  !.like_count = U64_ZERO,
                  !.comment_count = U64_ZERO,
                  !.timestamp = clock,
                  !.bump = FindBump(confession)]])

\* faulty variant: the timestamp is not written
create_confession_no_timestamp(s, confession, author, content_uri, clock) ==
    IF ~(StrLen(content_uri) <= Confession_MAX_URI_LENGTH)
    THEN Outcome("ContentUriTooLong", s)
    ELSE IF is_empty(content_uri)
    THEN Outcome("EmptyContentUri", s)
    ELSE Outcome(Ok, [s EXCEPT ![confession] =
        [@ EXCEPT !.author = author,
                  !.content_uri = content_uri,
                  !.like_count = U64_ZERO,
                  !.comment_count = U64_ZERO,
                  !.bump = FindBump(confession)]])

create_confession(s, confession, author, content_uri, clock) ==
    IF ~(StrLen(content_uri) <= Confession_MAX_URI_LENGTH)
    THEN Outcome("ContentUriTooLong", s)
    ELSE IF is_empty(content_uri)
    THEN Outcome("EmptyContentUri", s)
    ELSE Outcome(Ok, [s EXCEPT ![confession] =
        [@ EXCEPT !.author = author,
                  !.content_uri = content_uri,
                  !.like_count = U64_ZERO,
                  !.comment_count = U64_ZERO,
                  !.timestamp = clock,
                  !.bump = FindBump(confession)]])

\* faulty variant: the confession is closed when it is liked
like_confession_closes(s, confession) ==
    LET sum == checked_add(s[confession].like_count, U64_ONE)
    IN IF ~sum.some
       THEN Outcome("LikeCountOverflow", s)
       ELSE Outcome(Ok, [s EXCEPT ![confession] = NoAccount])

\* faulty variant: the like also counts as a comment
like_confession_bumps_both(s, confession) ==
    LET sum == checked_add(s[confession].like_count, U64_ONE)
    IN IF ~sum.some
       THEN Outcome("LikeCountOverflow", s)
       ELSE Outcome(Ok, [s EXCEPT ![confession].like_count = sum.val,
                                  ![confession].comment_count = wrapping_add(@, U64_ONE)])

\* faulty variant: the addition wraps
like_confession_wrapping(s, confession) ==
    Outcome(Ok, [s EXCEPT ![confession].like_count = wrapping_add(@, U64_ONE)])

like_confession(s, confession) ==
    LET sum == checked_add(s[confession].like_count, U64_ONE)
    IN IF ~sum.some
       THEN Outcome("LikeCountOverflow", s)
       ELSE Outcome(Ok, [s EXCEPT ![confession].like_count = sum.val])

\* faulty variant: the content_uri is written to the confession as well
comment_confession_wrong_target(s, confession, comment, commenter, content_uri, clock) ==
    IF ~(StrLen(content_uri) <= Comment_MAX_URI_LENGTH)
    THEN Outcome("ContentUriTooLong", s)
    ELSE IF is_empty(content_uri)
    THEN Outcome("EmptyContentUri", s)
    ELSE
      LET s1 == [s EXCEPT ![comment] =
                    [@ EXCEPT !.confession = confession,
                              !.commenter = commenter,
                              !.content_uri = content_uri,
                              !.timestamp = clock,
                              !.bump = FindBump(comment)],
                          ![confession].content_uri = content_uri]
          sum == checked_add(s1[confession].comment_count, U64_ONE)
      IN IF ~sum.some
         THEN Outcome("CommentCountOverflow", s1)
         ELSE Outcome(Ok, [s1 EXCEPT ![confession].comment_count = sum.val])

\* faulty variant: the back-reference is taken from the commenter
comment_confession_wrong_backref(s, confession, comment, commenter, content_uri, clock) ==
    IF ~(StrLen(content_uri) <= Comment_MAX_URI_LENGTH)
    THEN Outcome("ContentUriTooLong", s)
    ELSE IF is_empty(content_uri)
    THEN Outcome("EmptyContentUri", s)
    ELSE
      LET s1 == [s EXCEPT ![comment] =
                    [@ EXCEPT !.confession = commenter,
                              !.commenter = commenter,
                              !.content_uri = content_uri,
                              !.timestamp = clock,
                              !.bump = FindBump(comment)]]
          sum == checked_add(s1[confession].comment_count, U64_ONE)
      IN IF ~sum.some
         THEN Outcome("CommentCountOverflow", s1)
         ELSE Outcome(Ok, [s1 EXCEPT ![confession].comment_count = sum.val])

\* faulty variant: the counter is raised before the content_uri is checked
comment_confession_count_first(s, confession, comment, commenter, content_uri, clock) ==
    LET sum == checked_add(s[confession].comment_count, U64_ONE)
    IN IF ~sum.some
       THEN Outcome("CommentCountOverflow", s)
       ELSE IF ~(StrLen(content_uri) <= Comment_MAX_URI_LENGTH)
       THEN Outcome("ContentUriTooLong", s)
       ELSE IF is_empty(content_uri)
       THEN Outcome("EmptyContentUri", s)
       ELSE Outcome(Ok, [s EXCEPT ![comment] =
                            [@ EXCEPT !.confession = confession,
                                      !.commenter = commenter,
                                      !.content_uri = content_uri,
                                      !.timestamp = clock,
                                      !.bump = FindBump(comment)],
                                  ![confession].comment_count = sum.val])

\* faulty variant: the comment_count is not raised
comment_confession_no_count(s, confession, comment, commenter, content_uri, clock) ==
    IF ~(StrLen(content_uri) <= Comment_MAX_URI_LENGTH)
    THEN Outcome("ContentUriTooLong", s)
    ELSE IF is_empty(content_uri)
    THEN Outcome("EmptyContentUri", s)
    ELSE Outcome(Ok, [s EXCEPT ![comment] =
                    [@ EXCEPT !.confession = confession,
                              !.commenter = commenter,
                              !.content_uri = content_uri,
                              !.timestamp = clock,
                              !.bump = FindBump(comment)]])

\* faulty variant: the confession is written back from a copy whose like_count is
\* that of a new confession
comment_confession_stale_likes(s, confession, comment, commenter, content_uri, clock) ==
    IF ~(StrLen(content_uri) <= Comment_MAX_URI_LENGTH)
    THEN Outcome("ContentUriTooLong", s)
    ELSE IF is_empty(content_uri)
    THEN Outcome("EmptyContentUri", s)
    ELSE
      LET s1 == [s EXCEPT ![comment] =
                    [@ EXCEPT !.confession = confession,
                              !.commenter = commenter,
                              !.content_uri = content_uri,
                              !.timestamp = clock,
                              !.bump = FindBump(comment)]]
          sum == checked_add(s1[confession].comment_count, U64_ONE)
      IN IF ~sum.some
         THEN Outcome("CommentCountOverflow", s1)
         ELSE Outcome(Ok, [s1 EXCEPT ![confession].comment_count = sum.val,
                                     ![confession].like_count = U64_ZERO])

comment_confession(s, confession, comment, commenter, content_uri, clock) ==
    IF ~(StrLen(content_uri) <= Comment_MAX_URI_LENGTH)
    THEN Outcome("ContentUriTooLong", s)
    ELSE IF is_empty(content_uri)
    THEN Outcome("EmptyContentUri", s)
    ELSE
      LET s1 == [s EXCEPT ![comment] =
                    [@ EXCEPT !.confession = confession,
                              !.commenter = commenter,
                              !.content_uri = content_uri,
                              !.timestamp = clock,
                              !.bump = FindBump(comment)]]
          sum == checked_add(s1[confession].comment_count, U64_ONE)
      IN IF ~sum.some
         THEN Outcome("CommentCountOverflow", s1)
         ELSE Outcome(Ok, [s1 EXCEPT ![confession].comment_count = sum.val])

\* ------------------------------------------------------------ instructions
\* An instruction as the caller sends it.
Instruction(op, signer, signed, confession, comment, content_uri) ==
    [op |-> op, signer |-> signer, signed |-> signed, confession |-> confession,
     comment |-> comment, content_uri |-> content_uri]

\* faulty variant: the writes of a failed instruction persist
Commit_always(before, out) == Outcome(out.result, out.store)

\* The instruction's writes persist only when it returns Ok.
Commit(before, out) ==
    IF out.result = Ok THEN out ELSE Outcome(out.result, before)

\* #[program] mod whisper: validate the accounts, then run the handler.
Execute(s, ix, clock) ==
    IF ix.op = "create_confession" THEN
        LET v == CreateConfession_accounts(s, ix.confession, ix.signer, ix.signed)
        IN IF v.result # Ok THEN v
           ELSE create_confession(v.store, ix.confession, ix.signer, ix.content_uri, clock)
    ELSE IF ix.op = "like_confession" THEN
        LET v == LikeConfession_accounts(s, ix.confession, ix.signer, ix.signed)
        IN IF v.result # Ok THEN v
           ELSE like_confession(v.store, ix.confession)
    ELSE
        LET v == CommentConfession_accounts(s, ix.confession, ix.comment, ix.signer, ix.signed)
        IN IF v.result # Ok THEN v
           ELSE comment_confession(v.store, ix.confession, ix.comment, ix.signer,
                                   ix.content_uri, clock)

Process(s, ix, clock) == Commit(s, Execute(s, ix, clock))

\* ------------------------------------------------------------------- state
VARIABLES
    accounts,   \* the account store: address -> account
    now,        \* Clock::get()?.unix_timestamp
    last,       \* the last instruction processed, with its result
    pre,        \* the account store before the last instruction
    ops,        \* successful instructions so far
    base,       \* per confession: its counters when counting started
    tally       \* per confession: successful likes and comments since then

vars == <<accounts, now, last, pre, ops, base, tally>>

NoInstruction ==
    [op |-> "none", signer |-> DefaultPubkey, signed |-> FALSE,
     confession |-> NoAddress, comment |-> NoAddress, content_uri |-> EmptyString,
     result |-> "none", clock |-> 0]

Counters(acc) == [like_count |-> acc.like_count, comment_count |-> acc.comment_count]
ZeroCounters == [like_count |-> U64_ZERO, comment_count |-> U64_ZERO]
ZeroTally ==
    [likes |-> 0, comments |-> 0, likers |-> {}, likeCalls |-> 0,
     commentCallers |-> {}]

\* a call the accounts validation lets through to the handler's own checks
WellFormedLike(s, ix) ==
    /\ ix.op = "like_confession" /\ ix.signed
    /\ Lookup(s, ix.confession).kind = "Confession"

WellFormedComment(s, ix) ==
    /\ ix.op = "comment_confession" /\ ix.signed
    /\ Lookup(s, ix.confession).kind = "Confession"
    /\ ix.comment = CommentPda(ix.confession, ix.signer)
    /\ ix.content_uri.len \in 1..Comment_MAX_URI_LENGTH

\* the history kept for confession f, after instruction ix gave result r
\* in store s
Tallied(t, s, ix, r) ==
    IF ix.op = "create_confession"
    THEN IF r = Ok THEN ZeroTally ELSE t
    ELSE IF ix.op = "like_confession"
    THEN [t EXCEPT !.likes = IF r = Ok THEN @ + 1 ELSE @,
                   !.likers = IF r = Ok THEN @ \cup {ix.signer} ELSE @,
                   !.likeCalls = IF WellFormedLike(s, ix) THEN @ + 1 ELSE @]
    ELSE [t EXCEPT !.comments = IF r = Ok THEN @ + 1 ELSE @,
                   !.commentCallers =
                       IF WellFormedComment(s, ix) THEN @ \cup {ix.signer} ELSE @]

\* one below the 64-bit maximum
U64_NEAR_MAX == [U64_MAX EXCEPT ![1] = LimbBase - 2]

\* A store the program reaches after a long run: the first wallet's
\* confession has been liked, and commented on by wallets outside Keys,
\* 2^64 - 2 times each.
LongRunStore ==
    LET a == <<"wallet", 1>>
    IN [EmptyStore EXCEPT ![ConfessionPda(a)] =
           [kind |-> "Confession", author |-> a, content_uri |-> UriOfLen(1),
            like_count |-> U64_NEAR_MAX, comment_count |-> U64_NEAR_MAX,
            timestamp |-> 0, bump |-> FindBump(ConfessionPda(a))]]

Init ==
    /\ accounts \in {EmptyStore, LongRunStore}
    /\ now = 0
    /\ last = NoInstruction
    /\ pre = accounts
    /\ ops = 0
    /\ base = [f \in ConfAddrs |->
                 IF accounts[f].kind = "Confession" THEN Counters(accounts[f])
                 ELSE ZeroCounters]
    /\ tally = [f \in ConfAddrs |-> ZeroTally]

\* A failed instruction ends the run that is explored: it leaves the store
\* as it found it, so what may follow it is what follows the state before.
Running == last.result \in {"none", Ok}

\* the environment processes instruction ix at the current time
Submit(ix) ==
    LET out == Process(accounts, ix, now)
        f == ix.confession
    IN /\ (ops < MaxOps \/ out.result # Ok)
       /\ accounts' = out.store
       /\ pre' = accounts
       /\ last' = [op |-> ix.op, signer |-> ix.signer, signed |-> ix.signed,
                   confession |-> ix.confession, comment |-> ix.comment,
                   content_uri |-> ix.content_uri, result |-> out.result,
                   clock |-> now]
       /\ ops' = IF out.result = Ok THEN ops + 1 ELSE ops
       /\ base' = IF out.result = Ok /\ ix.op = "create_confession"
                  THEN [base EXCEPT ![f] = ZeroCounters] ELSE base
       /\ tally' = IF f \in ConfAddrs
                   THEN [tally EXCEPT ![f] = Tallied(@, accounts, ix, out.result)]
                   ELSE tally
       /\ UNCHANGED now

\* some wallet other than k
OtherKey(k) == CHOOSE o \in Keys : o # k

\* an address that holds a wallet, and one that may hold a Comment
WalletTarget == <<"wallet", 1>>
CommentTarget == CommentPda(ConfessionPda(<<"wallet", 1>>), <<"wallet", 1>>)

\* The instructions tried.  Signed ones: every author with every
\* content_uri at its own derived address, and with a valid content_uri at
\* another author's address; unsigned ones: a valid call without signature.
CreateInputs ==
    {Instruction("create_confession", k, TRUE, ConfessionPda(k), NoAddress, u) :
        k \in Keys, u \in UriInputs}
    \cup {Instruction("create_confession", k, TRUE, ConfessionPda(OtherKey(k)),
                      NoAddress, UriOfLen(1)) : k \in Keys}
    \cup {Instruction("create_confession", k, FALSE, ConfessionPda(k), NoAddress,
                      UriOfLen(1)) : k \in Keys}

\* every signer on every confession address, on a wallet and on a comment
\* address; and every signer on every confession address without signature
LikeInputs ==
    {Instruction("like_confession", k, TRUE, f, NoAddress, EmptyString) :
        k \in Keys, f \in ConfAddrs \cup {WalletTarget, CommentTarget}}
    \cup {Instruction("like_confession", k, FALSE, f, NoAddress, EmptyString) :
            k \in Keys, f \in ConfAddrs}

\* every commenter on every confession address with every content_uri at
\* the derived comment address; with a valid content_uri at another
\* commenter's address, on a wallet, on a comment address, and unsigned
CommentInputs ==
    {Instruction("comment_confession", k, TRUE, f, CommentPda(f, k), u) :
        k \in Keys, f \in ConfAddrs, u \in UriInputs}
    \cup {Instruction("comment_confession", k, TRUE, f, CommentPda(f, OtherKey(k)),
                      UriOfLen(1)) : k \in Keys, f \in ConfAddrs}
    \cup {Instruction("comment_confession", k, TRUE, f, CommentPda(f, k),
                      UriOfLen(1)) : k \in Keys, f \in {WalletTarget, CommentTarget}}
    \cup {Instruction("comment_confession", k, FALSE, f, CommentPda(f, k),
                      UriOfLen(1)) : k \in Keys, f \in ConfAddrs}

CreateConfession ==
    /\ Running
    /\ \E ix \in CreateInputs : Submit(ix)

LikeConfession ==
    /\ Running
    /\ \E ix \in LikeInputs : Submit(ix)

CommentConfession ==
    /\ Running
    /\ \E ix \in CommentInputs : Submit(ix)

Tick ==
    /\ Running
    /\ now < MaxTime
    /\ now' = now + 1
    /\ UNCHANGED <<accounts, last, pre, ops, base, tally>>

Next == CreateConfession \/ LikeConfession \/ CommentConfession \/ Tick

Spec == Init /\ [][Next]_vars

TypeOK ==
    /\ DOMAIN accounts = Addresses
    /\ \A a \in Addresses :
         /\ accounts[a].kind \in {"None", "System", "Confession", "Comment"}
         /\ accounts[a].kind = "Confession" =>
               IsU64(accounts[a].like_count) /\ IsU64(accounts[a].comment_count)
    /\ now \in 0..MaxTime
    /\ ops \in 0..MaxOps

\* ================================================================== claims
\* Arithmetic on u64 values used to state the claims, defined apart from
\* the additions the program performs.

\* x + 1 for x below the maximum: the limbs below the lowest one that is
\* not full wrap to 0, that one grows by 1, the others stay
Succ(x) ==
    [i \in 1..U64Limbs |->
        IF \A j \in 1..(i - 1) : x[j] = LimbBase - 1
        THEN (x[i] + 1) % LimbBase
        ELSE x[i]]

RECURSIVE PlusNat(_, _)
PlusNat(x, n) == IF n = 0 THEN x ELSE PlusNat(Succ(x), n - 1)

RECURSIVE NatLimb(_, _)
NatLimb(n, i) == IF i = 1 THEN n % LimbBase ELSE NatLimb(n \div LimbBase, i - 1)

\* a small natural number as a u64
U64FromNat(n) == [i \in 1..U64Limbs |-> NatLimb(n, i)]

\* the highest limb where x and y differ, 0 when x = y
TopDiff(x, y) ==
    LET D == {i \in 1..U64Limbs : x[i] # y[i]}
    IN IF D = {} THEN 0 ELSE CHOOSE i \in D : \A j \in D : j <= i

U64Leq(x, y) == x = y \/ (LET d == TopDiff(x, y) IN x[d] < y[d])

Failed == last.result \notin {"none", Ok}
ValidUri(u) == StrLen(u) \in 1..Confession_MAX_URI_LENGTH

\* the last instruction was create_confession, signed by its author and
\* naming the author's derived address
CreateBy(a) ==
    /\ last.op = "create_confession" /\ last.signed /\ last.signer = a
    /\ last.confession = ConfessionPda(a)

\* the last instruction was comment_confession, signed by commenter c, on
\* the Confession that was at f, naming the derived comment address
CommentBy(c, f) ==
    /\ last.op = "comment_confession" /\ last.signed /\ last.signer = c
    /\ last.confession = f /\ pre[f].kind = "Confession"
    /\ last.comment = CommentPda(f, c)

\* the last instruction was like_confession, signed, on the Confession at f
LikeOn(f) ==
    /\ last.op = "like_confession" /\ last.signed
    /\ last.confession = f /\ pre[f].kind = "Confession"

ConfessionsOf(a) ==
    {x \in Addresses : accounts[x].kind = "Confession" /\ accounts[x].author = a}

\* C1: there is at most one Confession per author; with a content_uri of
\* 1..200 bytes the first create_confession by an author succeeds, and every
\* later one fails as already in use and leaves the existing Confession as
\* it was.
C1_OneConfessionPerAuthor ==
    /\ \A a \in Keys : Cardinality(ConfessionsOf(a)) <= 1
    /\ \A a \in Keys :
         (CreateBy(a) /\ ValidUri(last.content_uri)) =>
            IF pre[ConfessionPda(a)].kind = "None"
            THEN /\ last.result = Ok
                 /\ accounts[ConfessionPda(a)].kind = "Confession"
            ELSE /\ last.result = "AccountAlreadyInUse"
                 /\ accounts[ConfessionPda(a)] = pre[ConfessionPda(a)]

\* C1 witness: an author who has a confession, liked once, tried to create
\* another one with a different, valid content_uri
C1_Witness ==
    \E a \in Keys :
        /\ CreateBy(a) /\ ValidUri(last.content_uri)
        /\ pre[ConfessionPda(a)].kind = "Confession"
        /\ pre[ConfessionPda(a)].content_uri # last.content_uri
        /\ pre[ConfessionPda(a)].like_count = U64_ONE
        /\ last.result = "AccountAlreadyInUse"

\* C2: on an existing confession f whose comment_count is below the maximum,
\* the first comment_confession by c with a valid content_uri creates the
\* Comment of (f, c); every later one by c on f fails as already in use,
\* creates nothing and leaves f's comment_count and the Comment as they were.
C2_CommentOncePerCommenter ==
    \A c \in Keys, f \in ConfAddrs :
        (CommentBy(c, f) /\ ValidUri(last.content_uri)) =>
            IF pre[CommentPda(f, c)].kind = "None"
            THEN pre[f].comment_count # U64_MAX =>
                    /\ last.result = Ok
                    /\ accounts[CommentPda(f, c)].kind = "Comment"
            ELSE /\ last.result = "AccountAlreadyInUse"
                 /\ accounts = pre

\* C2 witness: c commented on f, then commented again with another valid
\* content_uri and was refused
C2_Witness ==
    \E c \in Keys, f \in ConfAddrs :
        /\ CommentBy(c, f) /\ ValidUri(last.content_uri)
        /\ pre[CommentPda(f, c)].kind = "Comment"
        /\ pre[CommentPda(f, c)].content_uri # last.content_uri
        /\ last.result = "AccountAlreadyInUse"

\* C3: a successful comment_confession by c on f raises f's comment_count
\* by exactly 1 and creates the Comment of (f, c) with confession = f,
\* commenter = c, content_uri = the argument and timestamp = the clock.
C3_CommentEffect ==
    (last.op = "comment_confession" /\ last.result = Ok) =>
        LET f == last.confession
            c == last.signer
            cm == accounts[CommentPda(f, c)]
        IN /\ pre[f].kind = "Confession" /\ accounts[f].kind = "Confession"
           /\ pre[f].comment_count # U64_MAX
           /\ accounts[f].comment_count = Succ(pre[f].comment_count)
           /\ pre[CommentPda(f, c)].kind = "None"
           /\ cm.kind = "Comment"
           /\ cm.confession = f
           /\ cm.commenter = c
           /\ cm.content_uri = last.content_uri
           /\ cm.timestamp = last.clock

\* C3 witness: a comment by a wallet other than the author, at a time after
\* 0, on a confession that already had a comment
C3_Witness ==
    /\ last.op = "comment_confession" /\ last.result = Ok
    /\ last.clock > 0
    /\ last.confession # ConfessionPda(last.signer)
    /\ pre[last.confession].comment_count = U64_ONE
    /\ accounts[last.confession].comment_count = PlusNat(U64_ZERO, 2)

\* the Comment accounts the last instruction created
NewComments ==
    {x \in CommentAddrs : pre[x].kind = "None" /\ accounts[x].kind # "None"}

\* C4: with f's comment_count at the maximum, a valid comment_confession by
\* a first-time commenter fails with CommentCountOverflow, the count stays
\* at the maximum and no Comment of (f, c) exists; and whenever a Comment
\* comes into existence, its confession's comment_count grew by 1 in the
\* same instruction.
C4_CommentAtomic ==
    /\ \A c \in Keys, f \in ConfAddrs :
         ( /\ CommentBy(c, f) /\ ValidUri(last.content_uri)
           /\ pre[CommentPda(f, c)].kind = "None"
           /\ pre[f].comment_count = U64_MAX ) =>
            /\ last.result = "CommentCountOverflow"
            /\ accounts[f].comment_count = U64_MAX
            /\ accounts[CommentPda(f, c)].kind = "None"
    /\ \A x \in NewComments :
         LET f == accounts[x].confession
         IN /\ f \in ConfAddrs
            /\ pre[f].kind = "Confession"
            /\ pre[f].comment_count # U64_MAX
            /\ accounts[f].comment_count = Succ(pre[f].comment_count)

\* C4 witness: the comment that meets the counter at its maximum
C4_Witness ==
    \E c \in Keys, f \in ConfAddrs :
        /\ CommentBy(c, f) /\ ValidUri(last.content_uri)
        /\ pre[CommentPda(f, c)].kind = "None"
        /\ pre[f].comment_count = U64_MAX
        /\ last.result = "CommentCountOverflow"

\* the confessions created in this run (their counters started at 0)
Fresh(f) == accounts[f].kind = "Confession" /\ base[f] = ZeroCounters

\* C5: after N successful like_confession calls on a freshly created
\* confession its like_count is N; every signed like_confession on an
\* existing confession below the maximum succeeds and adds exactly 1,
\* whoever signs it: the author, another wallet, or one who liked before.
C5_LikesCount ==
    /\ \A f \in ConfAddrs :
         Fresh(f) => accounts[f].like_count = U64FromNat(tally[f].likes)
    /\ \A f \in ConfAddrs :
         (LikeOn(f) /\ pre[f].like_count # U64_MAX) =>
            /\ last.result = Ok
            /\ accounts[f].like_count = Succ(pre[f].like_count)

\* C5 witness: the author liked their own fresh confession a second time
C5_Witness ==
    \E f \in ConfAddrs :
        /\ Fresh(f) /\ LikeOn(f) /\ last.result = Ok
        /\ last.signer = accounts[f].author
        /\ pre[f].like_count = U64_ONE
        /\ tally[f].likes = 2
        /\ tally[f].likers = {last.signer}

\* C6: like_confession on a confession whose like_count is at the maximum
\* fails with LikeCountOverflow and leaves like_count at the maximum; after
\* any like_confession the like_count is not smaller than before.
C6_LikeOverflow ==
    \A f \in ConfAddrs :
        /\ (LikeOn(f) /\ pre[f].like_count = U64_MAX) =>
              /\ last.result = "LikeCountOverflow"
              /\ accounts[f].like_count = U64_MAX
        /\ (last.op = "like_confession" /\ pre[f].kind = "Confession") =>
              /\ accounts[f].kind = "Confession"
              /\ U64Leq(pre[f].like_count, accounts[f].like_count)

\* C6 witness: the like that meets the counter at its maximum
C6_Witness ==
    \E f \in ConfAddrs :
        /\ LikeOn(f) /\ pre[f].like_count = U64_MAX
        /\ last.result = "LikeCountOverflow"

\* C7: create_confession by an author who has no confession fails with
\* EmptyContentUri for a content_uri of 0 bytes, with ContentUriTooLong for
\* one of 201 bytes or more, and succeeds for 1..200 bytes; after either
\* failure the author has no Confession.
C7_CreateUriBounds ==
    \A a \in Keys :
        (CreateBy(a) /\ pre[ConfessionPda(a)].kind = "None") =>
            LET n == StrLen(last.content_uri)
            IN /\ n = 0 => last.result = "EmptyContentUri"
               /\ n >= 201 => last.result = "ContentUriTooLong"
               /\ n \in 1..200 => last.result = Ok
               /\ last.result = Ok <=> accounts[ConfessionPda(a)].kind = "Confession"
               /\ last.result # Ok => accounts[ConfessionPda(a)].kind = "None"

\* C7 witness: a content_uri of exactly 200 bytes was accepted after the
\* other wallet had created its confession
C7_Witness ==
    \E a \in Keys :
        /\ CreateBy(a) /\ pre[ConfessionPda(a)].kind = "None"
        /\ StrLen(last.content_uri) = 200
        /\ last.result = Ok
        /\ \E b \in Keys \ {a} : pre[ConfessionPda(b)].kind = "Confession"

\* C8: a successful create_confession signed by a with content_uri u leaves
\* at a's derived address a Confession with author = a, content_uri = u,
\* like_count = 0, comment_count = 0 and timestamp = the clock.
C8_CreateEffect ==
    (last.op = "create_confession" /\ last.result = Ok) =>
        LET cf == accounts[ConfessionPda(last.signer)]
        IN /\ last.confession = ConfessionPda(last.signer)
           /\ pre[last.confession].kind = "None"
           /\ cf.kind = "Confession"
           /\ cf.author = last.signer
           /\ cf.content_uri = last.content_uri
           /\ cf.like_count = U64_ZERO
           /\ cf.comment_count = U64_ZERO
           /\ cf.timestamp = last.clock

\* C8 witness: a confession created at a time after 0
C8_Witness ==
    /\ last.op = "create_confession" /\ last.result = Ok
    /\ last.clock > 0
    /\ last.signer = <<"wallet", 2>>

WhisperErrors ==
    {"ContentUriTooLong", "EmptyContentUri", "LikeCountOverflow", "CommentCountOverflow"}
AccountErrors ==
    {"AccountAlreadyInUse", "AccountNotInitialized", "AccountOwnedByWrongProgram",
     "AccountDiscriminatorMismatch", "ConstraintSeeds", "AccountNotSigner"}

NoMaximum(f) ==
    /\ accounts[f].like_count # U64_MAX
    /\ accounts[f].comment_count # U64_MAX

\* C10: for the likes and comments made on a confession, in whatever order
\* the environment has serialized them, like_count is its initial value plus
\* the number of successful likes and comment_count its initial value plus
\* the number of successful comments; while no counter is at the maximum
\* these are the number of signed likes made and the number of distinct
\* wallets that made a valid comment, which do not depend on the order.
C10_NoLostUpdates ==
    \A f \in ConfAddrs :
        accounts[f].kind = "Confession" =>
            /\ accounts[f].like_count = PlusNat(base[f].like_count, tally[f].likes)
            /\ accounts[f].comment_count = PlusNat(base[f].comment_count, tally[f].comments)
            /\ NoMaximum(f) =>
                  /\ tally[f].likes = tally[f].likeCalls
                  /\ tally[f].comments = Cardinality(tally[f].commentCallers)

\* C10 witness: a like and a comment by different wallets on the same
\* confession, the like after the comment
C10_Witness ==
    \E f \in ConfAddrs :
        /\ LikeOn(f) /\ last.result = Ok
        /\ NoMaximum(f)
        /\ tally[f].comments = 1 /\ tally[f].likes = 1
        /\ last.signer \notin tally[f].commentCallers
\* the addresses that held a Confession or a Comment before the last
\* instruction
Existing == {x \in Addresses : pre[x].kind \in {"Confession", "Comment"}}

\* C11: a Confession or Comment that exists at an address exists there
\* after every instruction, successful or failed: no instruction returns a
\* record to nonexistence (nor turns it into a record of the other type).
C11_NeverDestroyed ==
    \A x \in Existing : accounts[x].kind = pre[x].kind

\* C11 witness: a confession and a comment on it that have come through a
\* successful like
C11_Witness ==
    \E f \in ConfAddrs, c \in Keys :
        /\ LikeOn(f) /\ last.result = Ok
        /\ {f, CommentPda(f, c)} \subseteq Existing
\* C12: after its creation a Confession keeps its author, content_uri and
\* timestamp, and a Comment keeps every field; like_count and comment_count
\* of a Confession are the only fields an instruction changes in a record
\* that exists.
C12_WriteOnce ==
    \A x \in Existing :
        IF pre[x].kind = "Comment"
        THEN accounts[x] = pre[x]
        ELSE /\ accounts[x].kind = "Confession"
             /\ accounts[x].author = pre[x].author
             /\ accounts[x].content_uri = pre[x].content_uri
             /\ accounts[x].timestamp = pre[x].timestamp
             /\ accounts[x] = [pre[x] EXCEPT !.like_count = accounts[x].like_count,
                                             !.comment_count = accounts[x].comment_count]

\* C12 witness: a successful comment, made later than the confession, with
\* a content_uri other than the confession's, by a wallet other than its
\* author, which changed the confession's comment_count
C12_Witness ==
    \E f \in ConfAddrs :
        /\ last.op = "comment_confession" /\ last.result = Ok
        /\ last.confession = f /\ f \in Existing
        /\ last.clock > pre[f].timestamp
        /\ last.content_uri # pre[f].content_uri
        /\ last.signer # pre[f].author
        /\ accounts[f].comment_count # pre[f].comment_count
\* C13: like_count and comment_count of every Confession are 64-bit
\* unsigned values, and neither is smaller after an instruction than it
\* was before it.
C13_CountersMonotone ==
    /\ \A f \in Addresses :
         accounts[f].kind = "Confession" =>
            IsU64(accounts[f].like_count) /\ IsU64(accounts[f].comment_count)
    /\ \A f \in Addresses :
         pre[f].kind = "Confession" =>
            /\ accounts[f].kind = "Confession"
            /\ U64Leq(pre[f].like_count, accounts[f].like_count)
            /\ U64Leq(pre[f].comment_count, accounts[f].comment_count)

\* C13 witness: both counters of a confession have been raised to the
\* 64-bit maximum
C13_Witness ==
    \E f \in ConfAddrs :
        /\ last.result = Ok /\ last.confession = f
        /\ pre[f].kind = "Confession"
        /\ accounts[f].like_count = U64_MAX
        /\ accounts[f].comment_count = U64_MAX
\* the author had no Confession before the last instruction
HadNoConfession(a) ==
    \A x \in Addresses : ~(pre[x].kind = "Confession" /\ pre[x].author = a)

CommentsOn(f) ==
    {x \in Addresses : accounts[x].kind = "Comment" /\ accounts[x].confession = f}

\* C15: the comment_count of every Confession created by create_confession
\* is the number of Comment records whose confession field is its address;
\* for a confession that starts a run with comments by wallets outside Keys,
\* it is that starting count plus the number of such records.
C15_CountMatchesComments ==
    \A f \in ConfAddrs :
        accounts[f].kind = "Confession" =>
            LET n == Cardinality(CommentsOn(f))
            IN /\ accounts[f].comment_count = PlusNat(base[f].comment_count, n)
               /\ Fresh(f) => accounts[f].comment_count = U64FromNat(n)

\* C15 witness: a confession created in the run with two comments on it
C15_Witness ==
    \E f \in ConfAddrs :
        /\ Fresh(f)
        /\ Cardinality(CommentsOn(f)) = 2
        /\ last.op = "comment_confession" /\ last.result = Ok
        /\ last.confession = f
\* the last instruction was a like or a comment that named, as its
\* confession, an address that held no Confession
OnNoConfession ==
    /\ last.op \in {"like_confession", "comment_confession"}
    /\ Lookup(pre, last.confession).kind # "Confession"

\* C16: the confession field of every Comment is the address of a
\* Confession that exists; a like_confession or comment_confession naming
\* an address that holds no Confession fails and creates no Comment.
C16_ReferentialIntegrity ==
    /\ \A x \in Addresses :
         accounts[x].kind = "Comment" =>
            Lookup(accounts, accounts[x].confession).kind = "Confession"
    /\ OnNoConfession =>
         /\ last.result \in {"AccountNotInitialized", "AccountOwnedByWrongProgram",
                             "AccountDiscriminatorMismatch"}
         /\ NewComments = {}
         /\ accounts = pre

\* C16 witness: with a comment on one confession in the store, a signed,
\* valid comment on the address of a confession that was never created
C16_Witness ==
    /\ OnNoConfession
    /\ last.op = "comment_confession" /\ last.signed
    /\ last.confession \in ConfAddrs
    /\ last.comment = CommentPda(last.confession, last.signer)
    /\ ValidUri(last.content_uri)
    /\ \E x \in Addresses : accounts[x].kind = "Comment"
\* C17: the Confession stored at the address derived from author a has
\* author = a, and the Comment stored at the address derived from
\* (confession f, commenter c) has confession = f and commenter = c; the
\* derived addresses hold no record of another type.
C17_IdentityMatchesAddress ==
    /\ \A a \in Keys :
         LET acc == accounts[ConfessionPda(a)]
         IN /\ acc.kind \in {"None", "Confession"}
            /\ acc.kind = "Confession" => acc.author = a
    /\ \A f \in ConfAddrs, c \in Keys :
         LET acc == accounts[CommentPda(f, c)]
         IN /\ acc.kind \in {"None", "Comment"}
            /\ acc.kind = "Comment" => (acc.confession = f /\ acc.commenter = c)

\* C17 witness: with a confession and a comment by another wallet in the
\* store, a signed instruction naming another wallet's derived address was
\* refused
C17_Witness ==
    /\ last.signed /\ last.result = "ConstraintSeeds"
    /\ \E f \in ConfAddrs, c \in Keys :
         /\ accounts[f].kind = "Confession"
         /\ accounts[CommentPda(f, c)].kind = "Comment"
         /\ accounts[f].author # c
\* C18: a successful like_confession on f changes f's like_count and
\* nothing else; a successful comment_confession on f changes f's
\* comment_count, creates the one Comment, and changes nothing else; a
\* successful create_confession creates the one Confession and changes no
\* record that exists.
C18_Frame ==
    LET f == last.confession
    IN /\ (last.op = "like_confession" /\ last.result = Ok) =>
             /\ accounts = [pre EXCEPT ![f].like_count = accounts[f].like_count]
             /\ accounts[f].comment_count = pre[f].comment_count
       /\ (last.op = "comment_confession" /\ last.result = Ok) =>
             /\ pre[last.comment].kind = "None"
             /\ accounts = [pre EXCEPT ![f].comment_count = accounts[f].comment_count,
                                       ![last.comment] = accounts[last.comment]]
             /\ accounts[f].like_count = pre[f].like_count
       /\ (last.op = "create_confession" /\ last.result = Ok) =>
             /\ pre[f].kind = "None"
             /\ accounts = [pre EXCEPT ![f] = accounts[f]]
             /\ \A x \in Existing : accounts[x] = pre[x]

\* C18 witness: a successful like on a confession that has a comment, made
\* while its comment_count was not 0
C18_Witness ==
    \E f \in ConfAddrs, c \in Keys :
        /\ LikeOn(f) /\ last.result = Ok
        /\ pre[CommentPda(f, c)].kind = "Comment"
        /\ pre[f].comment_count # U64_ZERO
        /\ accounts[f].like_count # pre[f].like_count
\* what C19 says of a comment_confession by c on f whose result is r
UriCheckedFirst(c, f) ==
    LET n == StrLen(last.content_uri)
        bad == n = 0 \/ n > 200
    IN /\ n = 0 => last.result = "EmptyContentUri"
       /\ n > 200 => last.result = "ContentUriTooLong"
       /\ bad => /\ NewComments = {}
                 /\ accounts[f].comment_count = pre[f].comment_count
       /\ ( /\ n \in 1..200
            /\ pre[f].comment_count # U64_MAX
            /\ pre[CommentPda(f, c)].kind = "None" ) => last.result = Ok

\* C19 as stated: every signed comment_confession on an existing
\* confession with a content_uri of 0 bytes fails with EmptyContentUri and
\* with one above 200 bytes fails with ContentUriTooLong, whatever the
\* comment_count and whoever the commenter; with 1..200 bytes, below the
\* maximum, by a first-time commenter it succeeds.
C19_AsStated ==
    \A c \in Keys, f \in ConfAddrs : CommentBy(c, f) => UriCheckedFirst(c, f)

\* C19 (amended): the same for a commenter who has no Comment on the
\* confession yet; for one who has, the accounts validation refuses the
\* instruction as already in use before the handler looks at content_uri.
C19_UriBeforeCounter ==
    \A c \in Keys, f \in ConfAddrs :
        /\ (CommentBy(c, f) /\ pre[CommentPda(f, c)].kind = "None") =>
              UriCheckedFirst(c, f)
        /\ (CommentBy(c, f) /\ pre[CommentPda(f, c)].kind # "None") =>
              /\ last.result = "AccountAlreadyInUse"
              /\ accounts = pre

\* C19 witness: a first-time commenter sent an empty content_uri to a
\* confession whose comment_count is at the maximum
C19_Witness ==
    \E c \in Keys, f \in ConfAddrs :
        /\ CommentBy(c, f) /\ pre[CommentPda(f, c)].kind = "None"
        /\ pre[f].comment_count = U64_MAX
        /\ StrLen(last.content_uri) = 0
        /\ last.result = "EmptyContentUri"
====
